---------------------------- MODULE Spec2Model ----------------------------
(***************************************************************************)
(* Model of pmgmt-agent: one run of main() (src/pmgmt_agent/cli.py) over   *)
(* the backend selector (package_managers/__init__.py) and the two         *)
(* adapters (package_managers/apt.py, package_managers/dnf.py).            *)
(*                                                                         *)
(* Python strings are sequences of one-character strings, so that the      *)
(* parsers (split, strip, rstrip, lower, in) are computed as the code      *)
(* computes them.  A Python dict is a function from its keys to its        *)
(* values; an Optional value is a sequence of length 0 (None) or 1.        *)
(* The JSON text printed by dnf is represented by its document tree;       *)
(* json.loads either fails (kind "invalid") or returns that tree.          *)
(* The timestamp and the hostname of the report are not modelled.          *)
(***************************************************************************)
EXTENDS Integers, Sequences, FiniteSets, TLC

VARIABLES
    host,               \* the machine: distro.id() and what its listing tool prints
    args,               \* parse_args(): send_to_api, api_url, api_key
    config,             \* load_config(): [api] url, key
    pc,                 \* position of main()
    package_manager,    \* result of get_package_manager()
    distribution_info,  \* Optional: result of get_distribution_info()
    lines,              \* adapter local: the entries being scanned
    idx,                \* adapter local: index of the next entry to scan
    updates,            \* the list get_available_updates builds and returns
    output_data,        \* Optional: the report main assembles
    exit_code,          \* Optional: the process exit status
    raised,             \* name of the exception that escaped main, or ""
    printed,            \* reports written to stdout
    posts,              \* HTTP POSTs attempted
    calls,              \* per-package subprocess calls made, in order
    origin              \* for each record of updates: its entry index and lookup results

vars == <<host, args, config, pc, package_manager, distribution_info, lines, idx,
          updates, output_data, exit_code, raised, printed, posts, calls, origin>>

-----------------------------------------------------------------------------
(* Bounds of the explored inputs *)

\* longest listing output of `apt list --upgradable`, in lines
MaxLines == 3

\* most entries in the "updates" array printed by `dnf check-update --json`
MaxEntries == 2

-----------------------------------------------------------------------------
(* Python str operations *)

None == <<>>
Some(v) == <<v>>

Whitespace == {" ", "\t", "\n", "\r"}

Min(S) == CHOOSE m \in S : \A n \in S : m <= n

\* s[i:] (1-based i)
From(s, i) == SubSeq(s, i, Len(s))

\* sub in s
Contains(s, sub) ==
    \E j \in 1..(Len(s) - Len(sub) + 1) : SubSeq(s, j, j + Len(sub) - 1) = sub

\* s.find(sub) as a 1-based index, 0 when absent (sub non-empty)
Find(s, sub) ==
    LET J == {j \in 1..(Len(s) - Len(sub) + 1) : SubSeq(s, j, j + Len(sub) - 1) = sub}
    IN  IF J = {} THEN 0 ELSE Min(J)

\* s.lstrip()
RECURSIVE LStrip(_)
LStrip(s) ==
    IF s # <<>> /\ Head(s) \in Whitespace THEN LStrip(Tail(s)) ELSE s

\* s.rstrip(chars) for a set of characters
RECURSIVE RStripSet(_, _)
RStripSet(s, C) ==
    IF s # <<>> /\ s[Len(s)] \in C THEN RStripSet(SubSeq(s, 1, Len(s) - 1), C) ELSE s

\* s.strip()
Strip(s) == RStripSet(LStrip(s), Whitespace)

\* s.split(sep): every piece, empty ones included
RECURSIVE SplitSep(_, _)
SplitSep(s, sep) ==
    LET j == Find(s, sep)
    IN  IF j = 0 THEN <<s>>
        ELSE <<SubSeq(s, 1, j - 1)>> \o SplitSep(From(s, j + Len(sep)), sep)

\* s.split(sep, 1): at most one cut
SplitSep1(s, sep) ==
    LET j == Find(s, sep)
    IN  IF j = 0 THEN <<s>>
        ELSE <<SubSeq(s, 1, j - 1), From(s, j + Len(sep))>>

\* s.split(): maximal runs of non-whitespace
RECURSIVE SplitWs(_)
SplitWs(s) ==
    LET t == LStrip(s)
        E == {j \in 1..Len(t) : t[j] \in Whitespace}
        e == IF E = {} THEN Len(t) + 1 ELSE Min(E)
    IN  IF t = <<>> THEN <<>>
        ELSE <<SubSeq(t, 1, e - 1)>> \o SplitWs(From(t, e))

UpperCase == <<"A","B","C","D","E","F","G","H","I","J","K","L","M",
               "N","O","P","Q","R","S","T","U","V","W","X","Y","Z">>
LowerCase == <<"a","b","c","d","e","f","g","h","i","j","k","l","m",
               "n","o","p","q","r","s","t","u","v","w","x","y","z">>

LowerChar(c) ==
    IF \E i \in 1..Len(UpperCase) : UpperCase[i] = c
    THEN LowerCase[CHOOSE i \in 1..Len(UpperCase) : UpperCase[i] = c]
    ELSE c

\* s.lower()
Lower(s) == [i \in 1..Len(s) |-> LowerChar(s[i])]

\* s.replace(a, b) for single characters a, b
ReplaceChar(s, a, b) == [i \in 1..Len(s) |-> IF s[i] = a THEN b ELSE s[i]]

Digits == <<"0","1","2","3","4","5","6","7","8","9">>

IsDigit(c) == \E d \in 1..Len(Digits) : Digits[d] = c

DigitVal(c) == (CHOOSE d \in 1..Len(Digits) : Digits[d] = c) - 1

RECURSIVE DigitsVal(_)
DigitsVal(s) ==
    IF s = <<>> THEN 0 ELSE DigitsVal(SubSeq(s, 1, Len(s) - 1)) * 10 + DigitVal(s[Len(s)])

\* the digits of int(value): value stripped, one optional sign removed
IntBody(s) ==
    LET t == Strip(s)
    IN  IF t # <<>> /\ t[1] \in {"+", "-"} THEN Tail(t) ELSE t

\* whether int(value) returns (it raises ValueError otherwise)
IntOk(s) == IntBody(s) # <<>> /\ \A i \in 1..Len(IntBody(s)) : IsDigit(IntBody(s)[i])

\* int(value)
IntVal(s) ==
    IF Strip(s)[1] = "-" THEN 0 - DigitsVal(IntBody(s)) ELSE DigitsVal(IntBody(s))

\* d.update(e): e's keys win
Update(d, e) == e @@ d

-----------------------------------------------------------------------------
(* Text the adapters look for, and text the tools print *)

Sp == <<" ">>
Nl == <<"\n">>

\* '[upgradable from: ' (apt.py line 69)
UpgradableFrom ==
    <<"[","u","p","g","r","a","d","a","b","l","e"," ","f","r","o","m",":"," ">>

\* "security" (apt.py line 153)
Security == <<"s","e","c","u","r","i","t","y">>

KeySize == <<"s","i","z","e">>
KeyHomepage == <<"h","o","m","e","p","a","g","e">>
KeyMaintainer == <<"m","a","i","n","t","a","i","n","e","r">>
KeySection == <<"s","e","c","t","i","o","n">>
KeyPriority == <<"p","r","i","o","r","i","t","y">>
KeyDescription == <<"d","e","s","c","r","i","p","t","i","o","n">>
KeyUrl == <<"u","r","l">>
KeyLicense == <<"l","i","c","e","n","s","e">>
KeySummary == <<"s","u","m","m","a","r","y">>

Ubuntu == <<"u","b","u","n","t","u">>
Debian == <<"d","e","b","i","a","n">>
Fedora == <<"f","e","d","o","r","a">>

-----------------------------------------------------------------------------
(* Debian-family adapter: package_managers/apt.py *)

\* faulty variant: a "Name" line of the detail output is copied too
AptDetailLineCopiesName(details, line) ==
    IF line = <<>> \/ ~Contains(line, <<":", " ">>) THEN details
    ELSE LET kv    == SplitSep1(line, <<":", " ">>)
             key   == ReplaceChar(Lower(kv[1]), "-", "_")
             value == kv[2]
         IN  IF key = <<"n","a","m","e">> THEN Update(details, "name" :> value)
             ELSE IF key = KeyHomepage THEN Update(details, "website" :> value)
             ELSE IF key = KeySection THEN Update(details, "section" :> value)
             ELSE details

\* _get_package_details, lines 115-130: one line of `apt-cache show` merged into details
AptDetailLine(details, line) ==
    IF line = <<>> \/ ~Contains(line, <<":", " ">>) THEN details
    ELSE LET kv    == SplitSep1(line, <<":", " ">>)
             key   == ReplaceChar(Lower(kv[1]), "-", "_")
             value == kv[2]
         IN  IF key = KeySize
             THEN IF IntOk(value) THEN Update(details, "size_bytes" :> IntVal(value))
                                  ELSE Update(details, "size" :> value)
             ELSE IF key = KeyHomepage THEN Update(details, "website" :> value)
             ELSE IF key = KeyMaintainer THEN Update(details, "maintainer" :> value)
             ELSE IF key = KeySection THEN Update(details, "section" :> value)
             ELSE IF key = KeyPriority THEN Update(details, "priority" :> value)
             ELSE IF key = KeyDescription THEN Update(details, "description" :> value)
             ELSE details

RECURSIVE AptDetailLines(_, _)
AptDetailLines(details, ls) ==
    IF ls = <<>> THEN details
    ELSE AptDetailLines(AptDetailLine(details, Head(ls)), Tail(ls))

\* _get_package_details: result is what `apt-cache show <name>` did, [rc, out];
\* check=True raises CalledProcessError on a non-zero exit, caught: {}
AptGetPackageDetails(result) ==
    IF result.rc # 0 THEN <<>>
    ELSE AptDetailLines(<<>>, SplitSep(Strip(result.out), Nl))

\* _is_security_update: result is what `apt-cache policy <name>` did
AptIsSecurityUpdate(result) ==
    IF result.rc # 0 THEN FALSE
    ELSE Contains(Lower(result.out), Security)

\* get_available_updates, lines 56-69: what becomes of one line of the listing
\*   "blank"  line 56-57, "short" line 62-63,
\*   "IndexError" line 69 (split(...)[1] on a line without the marker), caught at 89
AptLineOutcome(line) ==
    IF Strip(line) = <<>> THEN "blank"
    ELSE IF Len(SplitWs(line)) < 4 THEN "short"
    ELSE IF Len(SplitSep(line, UpgradableFrom)) < 2 THEN "IndexError"
    ELSE "record"

\* lines 65-66
AptPackageName(line) == SplitSep(SplitWs(line)[1], <<"/">>)[1]

\* faulty variant: the closing bracket is kept
AptVersionInfoKeepsBracket(line) == SplitSep(line, UpgradableFrom)[2]

\* line 69
AptVersionInfo(line) == RStripSet(SplitSep(line, UpgradableFrom)[2], {"]"})

\* faulty variant: the name is taken from the wrong token
AptUpdateInfoNameFromArch(line, show, policy) ==
    LET parts == SplitWs(line)
    IN  [name |-> parts[3],
         version |-> parts[2],
         current_version |-> RStripSet(SplitSep(line, UpgradableFrom)[2], {"]"}),
         architecture |-> parts[3],
         is_security_update |-> policy.rc = 0 /\ Contains(Lower(policy.out), Security)]

\* lines 75-85: the record of a line, given the two lookups' results
AptUpdateInfo(line, show, policy) ==
    LET parts       == SplitWs(line)
        pkg_info    == AptGetPackageDetails(show)
        update_info == [name |-> AptPackageName(line),
                        version |-> parts[2],
                        current_version |-> AptVersionInfo(line),
                        architecture |-> IF Len(parts) > 2 THEN parts[3] ELSE <<>>,
                        is_security_update |-> AptIsSecurityUpdate(policy)]
    IN  IF pkg_info # <<>> THEN Update(update_info, pkg_info) ELSE update_info

-----------------------------------------------------------------------------
(* Fedora-family adapter: package_managers/dnf.py *)

\* JSON documents: json.loads(result.stdout) of dnf.py line 58
JInvalid == [kind |-> "invalid"]
JNull == [kind |-> "null"]
JNumber == [kind |-> "number"]
JString(s) == [kind |-> "string", str |-> s]
JArray(items) == [kind |-> "array", items |-> items]
JObject(members) == [kind |-> "object", members |-> members]

\* obj.get(key, default) on a JSON object
JGet(obj, key, default) ==
    IF key \in DOMAIN obj.members THEN obj.members[key] ELSE default

\* the Python value of a JSON value: a str for a string, the value itself otherwise
PyVal(j) == IF j.kind = "string" THEN j.str ELSE j

\* _get_package_details, lines 109-123: one line of `dnf info` merged into details
DnfDetailLine(details, line) ==
    IF Strip(line) = <<>> \/ ~Contains(line, <<":">>) THEN details
    ELSE LET parts == SplitSep1(line, <<":">>)
             key   == ReplaceChar(Lower(Strip(parts[1])), " ", "_")
             value == Strip(parts[2])
         IN  IF key = KeySize THEN Update(details, "size" :> value)
             ELSE IF key = KeyUrl THEN Update(details, "website" :> value)
             ELSE IF key = KeyLicense THEN Update(details, "license" :> value)
             ELSE IF key = KeySummary THEN Update(details, "summary" :> value)
             ELSE IF key = KeyDescription THEN Update(details, "description" :> value)
             ELSE details

RECURSIVE DnfDetailLines(_, _)
DnfDetailLines(details, ls) ==
    IF ls = <<>> THEN details
    ELSE DnfDetailLines(DnfDetailLine(details, Head(ls)), Tail(ls))

\* _get_package_details: result is what `dnf info <name> --quiet` did
DnfGetPackageDetails(result) ==
    IF result.rc # 0 THEN <<>>
    ELSE DnfDetailLines(<<>>, SplitSep(Strip(result.out), Nl))

\* _is_security_update: subprocess.run without check=True never raises
\* CalledProcessError, so the exit status is not looked at (lines 143-147)
DnfIsSecurityUpdate(package_name, result) == Contains(result.out, package_name)

\* lines 62-69: the base record of one entry of data["updates"]
DnfBaseInfo(pkg) ==
    [name |-> PyVal(JGet(pkg, "name", JString(<<>>))),
     version |-> PyVal(JGet(pkg, "version", JString(<<>>))),
     release |-> PyVal(JGet(pkg, "release", JString(<<>>))),
     architecture |-> PyVal(JGet(pkg, "arch", JString(<<>>))),
     repository |-> PyVal(JGet(pkg, "repo", JString(<<>>))),
     current_version |-> PyVal(JGet(pkg, "installed_version", JString(<<>>)))]

\* lines 72-77: the record of an entry, given the two lookups' results
DnfUpdateInfo(pkg, info, advisories) ==
    LET base     == DnfBaseInfo(pkg)
        pkg_info == DnfGetPackageDetails(info)
        merged   == IF pkg_info # <<>> THEN Update(base, pkg_info) ELSE base
    IN  Update(merged, "is_security_update" :> DnfIsSecurityUpdate(base.name, advisories))

-----------------------------------------------------------------------------
(* Inputs: what the host's tools print *)

\* the spec's example line:
\* curl/focal-updates 7.68.0-1ubuntu2.18 amd64 [upgradable from: 7.68.0-1ubuntu2.16]
CurlName == <<"c","u","r","l">>
CurlVersion == <<"7",".","6","8",".","0","-","1","u","b","u","n","t","u","2",".","1","8">>
CurlCurrent == <<"7",".","6","8",".","0","-","1","u","b","u","n","t","u","2",".","1","6">>
Amd64 == <<"a","m","d","6","4">>
CurlLine ==
    CurlName \o <<"/","f","o","c","a","l","-","u","p","d","a","t","e","s">> \o Sp
        \o CurlVersion \o Sp \o Amd64 \o Sp \o UpgradableFrom \o CurlCurrent \o <<"]">>

\* Listing...
ListingHeader == <<"L","i","s","t","i","n","g",".",".",".">>
\* curl/s 8 i386 [upgradable from: 7]     the same package for a second architecture
CurlI386Line ==
    CurlName \o <<"/","s"," ","8"," ","i","3","8","6"," ">> \o UpgradableFrom \o <<"7","]">>
\* a/s 1 x                                 three tokens
ShortLine == <<"a","/","s"," ","1"," ","x">>
\* a/s 1 x [held]                          four tokens, no marker
NoMarkerLine == <<"a","/","s"," ","1"," ","x"," ","[","h","e","l","d","]">>
\* /s 1 x [upgradable from: 0]             nothing before the first "/"
SlashLine == <<"/","s"," ","1"," ","x"," ">> \o UpgradableFrom \o <<"0","]">>
\* vim/s 2 x [upgradable from: 1]]         more than one closing bracket
BracketLine == <<"v","i","m","/","s"," ","2"," ","x"," ">> \o UpgradableFrom \o <<"1","]","]">>

AptLineSet ==
    {ListingHeader, <<>>, ShortLine, NoMarkerLine, CurlLine, CurlI386Line, SlashLine,
     BracketLine}

\* "\n".join(ls)
RECURSIVE JoinLines(_)
JoinLines(ls) ==
    IF ls = <<>> THEN <<>>
    ELSE IF Len(ls) = 1 THEN ls[1]
    ELSE ls[1] \o Nl \o JoinLines(Tail(ls))

SeqsUpTo(S, n) == UNION {[1..k -> S] : k \in 0..n}

\* the first line is skipped whatever it is: the header, a blank line (which the
\* strip of the whole output removes) or a line that would parse
AptFirstLineSet == {ListingHeader, <<>>, CurlLine}

\* what `apt list --upgradable` may print: nothing, or up to MaxLines lines
AptOutputs ==
    {<<>>} \cup
    {JoinLines(<<first>> \o rest) :
        first \in AptFirstLineSet, rest \in SeqsUpTo(AptLineSet, MaxLines - 1)}

\* what `apt list --upgradable` may do: [rc, out]
AptListings ==
    {[rc |-> 0, out |-> o] : o \in AptOutputs}
        \cup {[rc |-> 100, out |-> JoinLines(<<ListingHeader, CurlLine>>)]}

\* Package: p / Version: 9 / Name: n / Architecture: z / Current-Version: 8 /
\* Is-Security-Update: x / Installed-Size: 7 / Size: 42 / Homepage: h / Section: web
ShowOut ==
    <<"P","a","c","k","a","g","e",":"," ","p","\n","V","e","r","s","i","o","n",":"," ","9","\n",
      "N","a","m","e",":"," ","n","\n",
      "A","r","c","h","i","t","e","c","t","u","r","e",":"," ","z","\n",
      "C","u","r","r","e","n","t","-","V","e","r","s","i","o","n",":"," ","8","\n",
      "I","s","-","S","e","c","u","r","i","t","y","-","U","p","d","a","t","e",":"," ","x","\n",
      "I","n","s","t","a","l","l","e","d","-","S","i","z","e",":"," ","7","\n",
      "S","i","z","e",":"," ","4","2","\n","H","o","m","e","p","a","g","e",":"," ","h","\n",
      "S","e","c","t","i","o","n",":"," ","w","e","b">>

\* what `apt-cache show <name>` may do
AptShowResults == {[rc |-> 0, out |-> ShowOut], [rc |-> 100, out |-> ShowOut]}

\* 500 http://Security.x f-security
PolicySecurityOut ==
    <<"5","0","0"," ","h","t","t","p",":","/","/","S","e","c","u","r","i","t","y",".","x"," ",
      "f","-","s","e","c","u","r","i","t","y">>
\* 500 http://archive.x f
PolicyPlainOut ==
    <<"5","0","0"," ","h","t","t","p",":","/","/","a","r","c","h","i","v","e",".","x"," ","f">>

\* what `apt-cache policy <name>` may do
AptPolicyResults ==
    {[rc |-> 0, out |-> PolicySecurityOut], [rc |-> 0, out |-> PolicyPlainOut],
     [rc |-> 100, out |-> PolicySecurityOut]}

\* the spec's example entry:
\* {"name":"bash","version":"5.1","release":"6","arch":"x86_64","repo":"updates",
\*  "installed_version":"5.0"}
BashName == <<"b","a","s","h">>
X8664 == <<"x","8","6","_","6","4">>
BashEntry ==
    JObject([name |-> JString(BashName), version |-> JString(<<"5",".","1">>),
             release |-> JString(<<"6">>), arch |-> JString(X8664),
             repo |-> JString(<<"u","p","d","a","t","e","s">>),
             installed_version |-> JString(<<"5",".","0">>)])
\* {"name":"vim","version":"9"}
VimEntry == JObject([name |-> JString(<<"v","i","m">>), version |-> JString(<<"9">>)])
\* {"version":"1"}: an entry without a name
NoNameEntry == JObject([version |-> JString(<<"1">>)])
\* {"name":null,"version":"1"}
NullNameEntry == JObject([name |-> JNull, version |-> JString(<<"1">>)])

\* entries of the "updates" array; JNumber is an entry that is no object
DnfEntrySet == {BashEntry, VimEntry, NoNameEntry, NullNameEntry, JNumber}

\* documents `dnf check-update --json` may print: no JSON, a top-level array, an object
\* without "updates", "updates": null, and "updates": [entries]
DnfDocuments ==
    {JInvalid, JArray(<<>>), JObject(<<>>), JObject([updates |-> JNull])}
        \cup {JObject([updates |-> JArray(es)]) : es \in SeqsUpTo(DnfEntrySet, MaxEntries)}

\* what `dnf check-update` may do: exit 0 (no updates), 100 (updates), 1 (error)
DnfListings == {[rc |-> r, out |-> d] : r \in {0, 100, 1}, d \in DnfDocuments}

\* Name : n / Version : 9 / Architecture : z / Current Version : 8 /
\* Is Security Update : x / Size : 1 M / URL : h / License : MIT
InfoOut ==
    <<"N","a","m","e"," ",":"," ","n","\n","V","e","r","s","i","o","n"," ",":"," ","9","\n",
      "A","r","c","h","i","t","e","c","t","u","r","e"," ",":"," ","z","\n",
      "C","u","r","r","e","n","t"," ","V","e","r","s","i","o","n"," ",":"," ","8","\n",
      "I","s"," ","S","e","c","u","r","i","t","y"," ","U","p","d","a","t","e"," ",":"," ","x","\n",
      "S","i","z","e"," ",":"," ","1"," ","M","\n","U","R","L"," ",":"," ","h","\n",
      "L","i","c","e","n","s","e"," ",":"," ","M","I","T">>

\* what `dnf info <name> --quiet` may do
DnfInfoResults == {[rc |-> 0, out |-> InfoOut], [rc |-> 1, out |-> InfoOut]}

\* what `dnf updateinfo list security <name>` may do: list an advisory for the
\* package, list nothing, or fail after printing a line that names the package
DnfAdvisoryResults(package_name) ==
    {[rc |-> 0, out |-> <<"F","-","1"," ">> \o package_name],
     [rc |-> 0, out |-> <<>>],
     [rc |-> 1, out |-> <<"N","o"," ">> \o package_name]}

NoListing == [rc |-> 0, out |-> <<>>]

\* distro.id() as the library reports it; get_package_manager lowercases it itself
FedoraMixed == <<"F","e","d","o","r","a">>
CentOS == <<"c","e","n","t","o","s">>

\* hosts of a whole run of main(): every family, a few listings each
MainAptListings ==
    {[rc |-> 100, out |-> JoinLines(<<ListingHeader, CurlLine>>)],
     [rc |-> 0, out |-> ListingHeader],
     [rc |-> 0, out |-> JoinLines(<<ListingHeader, CurlLine>>)],
     [rc |-> 0, out |-> JoinLines(<<ListingHeader, CurlLine, BracketLine>>)]}

MainDnfListings ==
    {[rc |-> 1, out |-> JObject([updates |-> JArray(<<BashEntry>>)])],
     [rc |-> 0, out |-> JInvalid],
     [rc |-> 0, out |-> JArray(<<>>)],
     [rc |-> 0, out |-> JObject([updates |-> JArray(<<>>)])],
     [rc |-> 100, out |-> JObject([updates |-> JArray(<<BashEntry>>)])],
     [rc |-> 100, out |-> JObject([updates |-> JArray(<<BashEntry, VimEntry>>)])]}

MainHosts ==
    {[id |-> i, listing |-> l] : i \in {Ubuntu, Debian}, l \in MainAptListings}
        \cup {[id |-> i, listing |-> l] : i \in {Fedora, FedoraMixed}, l \in MainDnfListings}
        \cup {[id |-> i, listing |-> NoListing] : i \in {CentOS, <<>>}}

\* hosts of the adapters on their own: one id, every listing within the bounds
AptHosts == {[id |-> Ubuntu, listing |-> l] : l \in AptListings}
DnfHosts == {[id |-> Fedora, listing |-> l] : l \in DnfListings}

\* parse_args(): --send-to-api, --api-url, --api-key (absent, empty or given)
ArgsSet ==
    [send_to_api : BOOLEAN,
     api_url : {None, Some(<<>>), Some(<<"a">>)},
     api_key : {None, Some(<<>>), Some(<<"k">>)}]

\* load_config(): url and key default to "" (cli.py lines 82-85)
ConfigSet == [url : {<<>>, <<"c">>}, key : {<<>>, <<"s">>}]

NoArgs == [send_to_api |-> FALSE, api_url |-> None, api_key |-> None]
NoConfig == [url |-> <<>>, key |-> <<>>]

\* the status send_to_api accepts (cli.py line 146)
HttpOk == 200

\* requests.post: a response with a status, or a RequestException
HttpOutcomes ==
    {[kind |-> "response", status |-> HttpOk], [kind |-> "response", status |-> 204],
     [kind |-> "response", status |-> 500], [kind |-> "RequestException", status |-> 0]}

-----------------------------------------------------------------------------
(* Backend selection: package_managers/__init__.py *)

\* faulty variant: "debian" left out of the first list
SelectPackageManagerUbuntuOnly(distribution) ==
    IF distribution \in {Ubuntu} THEN "apt"
    ELSE IF distribution \in {Fedora} THEN "dnf"
    ELSE "none"

\* get_package_manager, lines 26-34, on the lowercased id
SelectPackageManager(distribution) ==
    IF distribution \in {Ubuntu, Debian} THEN "apt"
    ELSE IF distribution \in {Fedora} THEN "dnf"
    ELSE "none"

\* get_package_manager, line 23: distro.id().lower()
DetectedDistribution == Lower(host.id)

-----------------------------------------------------------------------------
(* The run of main(): cli.py lines 158-212 *)

env == <<host, args, config>>
adapter == <<lines, idx, updates, calls, origin>>
delivery == <<printed, posts>>

\* an exception no handler catches: the interpreter prints the traceback and the
\* process exits with status 1
Uncaught(exception) ==
    /\ raised' = exception
    /\ exit_code' = Some(1)
    /\ pc' = "exit"

\* sys.exit(status)
SysExit(status) ==
    /\ exit_code' = Some(status)
    /\ pc' = "exit"
    /\ UNCHANGED raised

\* lines 164-167
GetPackageManager ==
    /\ pc = "get_package_manager"
    /\ package_manager' = SelectPackageManager(DetectedDistribution)
    /\ IF package_manager' = "none"
       THEN SysExit(1)
       ELSE pc' = "get_distribution_info" /\ UNCHANGED <<exit_code, raised>>
    /\ UNCHANGED <<env, adapter, delivery, distribution_info, output_data>>

\* apt.py lines 27-33 and dnf.py lines 28-34; version, codename and name are not modelled
DistributionInfo == [id |-> host.id, package_manager |-> package_manager]

\* line 170
GetDistributionInfo ==
    /\ pc = "get_distribution_info"
    /\ distribution_info' = Some(DistributionInfo)
    /\ pc' = "get_available_updates"
    /\ UNCHANGED <<env, adapter, delivery, package_manager, output_data, exit_code, raised>>

\* get_available_updates returns to main, line 173
ReturnUpdates ==
    /\ pc' = "prepare_output"
    /\ UNCHANGED <<exit_code, raised>>

\* apt.py lines 45-52 and 94-96: run the listing; a non-zero exit is the
\* CalledProcessError of check=True, caught: return []
AptRunListing ==
    /\ pc = "get_available_updates"
    /\ package_manager = "apt"
    /\ updates' = <<>>
    /\ IF host.listing.rc # 0
       THEN ReturnUpdates /\ UNCHANGED <<lines, idx>>
       ELSE /\ lines' = SplitSep(Strip(host.listing.out), Nl)
            /\ idx' = 2
            /\ pc' = "apt_scan"
            /\ UNCHANGED <<exit_code, raised>>
    /\ UNCHANGED <<env, delivery, package_manager, distribution_info, output_data,
                   calls, origin>>

\* faulty variant: the record is put in front
AptInsertFirst(list, update_info) == <<update_info>> \o list

\* apt.py line 87: updates.append(update_info)
AptAppend(list, update_info) == Append(list, update_info)

\* apt.py lines 55-90: one pass of the loop over lines[1:]
AptScanLine ==
    /\ pc = "apt_scan"
    /\ idx <= Len(lines)
    /\ idx' = idx + 1
    /\ IF AptLineOutcome(lines[idx]) = "record"
       THEN \E show \in AptShowResults, policy \in AptPolicyResults :
                /\ updates' = AptAppend(updates, AptUpdateInfo(lines[idx], show, policy))
                /\ calls' = calls \o
                       <<[cmd |-> "apt-cache show", pkg |-> AptPackageName(lines[idx])],
                         [cmd |-> "apt-cache policy", pkg |-> AptPackageName(lines[idx])]>>
                /\ origin' = Append(origin,
                       [entry |-> idx, details |-> show, security |-> policy])
       ELSE UNCHANGED <<updates, calls, origin>>
    /\ UNCHANGED <<env, delivery, pc, package_manager, distribution_info, output_data,
                   lines, exit_code, raised>>

\* apt.py line 92
AptReturn ==
    /\ pc = "apt_scan"
    /\ idx > Len(lines)
    /\ ReturnUpdates
    /\ UNCHANGED <<env, adapter, delivery, package_manager, distribution_info, output_data>>

\* faulty variant: the exit status is not looked at
DnfAcceptsAny(returncode) == TRUE

\* dnf.py line 52: the exit statuses taken as success
DnfAccepted(returncode) == returncode \in {0, 100}

\* dnf.py lines 46-61 and 83-85: run the check, parse the document, take data["updates"].
\*   a status not accepted, or no JSON (JSONDecodeError, caught): return []
\*   a document that is no object: data.get raises AttributeError, which nothing catches
\*   "updates" that is no array: the for statement raises TypeError, which nothing catches
DnfRunListing ==
    /\ pc = "get_available_updates"
    /\ package_manager = "dnf"
    /\ updates' = <<>>
    /\ LET data == host.listing.out
           list == JGet(data, "updates", JArray(<<>>))
       IN  IF ~DnfAccepted(host.listing.rc) \/ data.kind = "invalid"
           THEN ReturnUpdates /\ UNCHANGED <<lines, idx>>
           ELSE IF data.kind # "object"
           THEN Uncaught("AttributeError") /\ UNCHANGED <<lines, idx>>
           ELSE IF list.kind # "array"
           THEN Uncaught("TypeError") /\ UNCHANGED <<lines, idx>>
           ELSE /\ lines' = list.items
                /\ idx' = 1
                /\ pc' = "dnf_scan"
                /\ UNCHANGED <<exit_code, raised>>
    /\ UNCHANGED <<calls, origin>>
    /\ UNCHANGED <<env, delivery, package_manager, distribution_info, output_data>>

\* dnf.py line 79: updates.append(update_info)
DnfAppend(list, update_info) == Append(list, update_info)

\* dnf.py lines 61-79: one pass of the loop over data["updates"].
\*   an entry that is no object: pkg.get raises AttributeError, uncaught
\*   a name that is no str: subprocess.run raises TypeError on the argument, uncaught
DnfScanEntry ==
    /\ pc = "dnf_scan"
    /\ idx <= Len(lines)
    /\ idx' = idx + 1
    /\ LET pkg == lines[idx]
       IN  IF pkg.kind # "object"
           THEN Uncaught("AttributeError") /\ UNCHANGED <<updates, calls, origin>>
           ELSE IF JGet(pkg, "name", JString(<<>>)).kind # "string"
           THEN Uncaught("TypeError") /\ UNCHANGED <<updates, calls, origin>>
           ELSE \E info \in DnfInfoResults,
                   advisories \in DnfAdvisoryResults(DnfBaseInfo(pkg).name) :
                    /\ updates' = DnfAppend(updates, DnfUpdateInfo(pkg, info, advisories))
                    /\ calls' = calls \o
                           <<[cmd |-> "dnf info", pkg |-> DnfBaseInfo(pkg).name],
                             [cmd |-> "dnf updateinfo", pkg |-> DnfBaseInfo(pkg).name]>>
                    /\ origin' = Append(origin,
                           [entry |-> idx, details |-> info, security |-> advisories])
                    /\ UNCHANGED <<pc, exit_code, raised>>
    /\ UNCHANGED <<env, delivery, package_manager, distribution_info, output_data, lines>>

\* dnf.py line 81
DnfReturn ==
    /\ pc = "dnf_scan"
    /\ idx > Len(lines)
    /\ ReturnUpdates
    /\ UNCHANGED <<env, adapter, delivery, package_manager, distribution_info, output_data>>

\* line 184
TotalUpdates(us) == Len(us)

\* update.get("is_security_update", False)
IsSecurity(update) ==
    IF "is_security_update" \in DOMAIN update THEN update.is_security_update ELSE FALSE

\* faulty variant: every update counted, the flag not looked at
SecurityUpdatesCountsAll(us) == Len(us)

\* line 185
SecurityUpdates(us) == Cardinality({i \in 1..Len(us) : IsSecurity(us[i])})

\* lines 179-186
OutputData ==
    [distribution |-> distribution_info[1],
     updates |-> updates,
     total_updates |-> TotalUpdates(updates),
     security_updates |-> SecurityUpdates(updates)]

PrepareOutput ==
    /\ pc = "prepare_output"
    /\ output_data' = Some(OutputData)
    /\ pc' = "deliver"
    /\ UNCHANGED <<env, adapter, delivery, package_manager, distribution_info,
                   exit_code, raised>>

\* Python's  a or b  for an Optional str a and a str b
OrElse(a, b) == IF a # None /\ a[1] # <<>> THEN a[1] ELSE b

\* lines 193-194
ApiUrl == OrElse(args.api_url, config.url)
ApiKey == OrElse(args.api_key, config.key)

\* lines 191-202: delivery asked for, URL or key empty
MissingCredentials ==
    /\ pc = "deliver"
    /\ args.send_to_api
    /\ ApiUrl = <<>> \/ ApiKey = <<>>
    /\ SysExit(1)
    /\ UNCHANGED <<env, adapter, delivery, package_manager, distribution_info, output_data>>

\* send_to_api, lines 142-155: True exactly for a response with status 200
SendSucceeded(outcome) == outcome.kind = "response" /\ outcome.status = HttpOk

\* faulty variant: the POST is attempted without the check of the key (lines 200-202)
SendToApiWithoutKeyCheck ==
    /\ pc = "deliver"
    /\ args.send_to_api
    /\ ApiUrl # <<>>
    /\ \E outcome \in HttpOutcomes :
           /\ posts' = Append(posts,
                  [url |-> ApiUrl, key |-> ApiKey, json |-> output_data[1],
                   outcome |-> outcome])
           /\ IF outcome.kind = "response" /\ outcome.status = HttpOk
              THEN SysExit(0) ELSE SysExit(1)
    /\ UNCHANGED <<env, adapter, printed, package_manager, distribution_info, output_data>>

\* lines 204-207 and 212
SendToApi ==
    /\ pc = "deliver"
    /\ args.send_to_api
    /\ ApiUrl # <<>>
    /\ ApiKey # <<>>
    /\ \E outcome \in HttpOutcomes :
           /\ posts' = Append(posts,
                  [url |-> ApiUrl, key |-> ApiKey, json |-> output_data[1],
                   outcome |-> outcome])
           /\ IF SendSucceeded(outcome) THEN SysExit(0) ELSE SysExit(1)
    /\ UNCHANGED <<env, adapter, printed, package_manager, distribution_info, output_data>>

\* lines 208-212
PrintReport ==
    /\ pc = "deliver"
    /\ ~args.send_to_api
    /\ printed' = Append(printed, output_data[1])
    /\ SysExit(0)
    /\ UNCHANGED <<env, adapter, posts, package_manager, distribution_info, output_data>>

-----------------------------------------------------------------------------
(* Specifications *)

Start ==
    /\ package_manager = "unset"
    /\ distribution_info = None
    /\ lines = <<>>
    /\ idx = 1
    /\ updates = <<>>
    /\ output_data = None
    /\ exit_code = None
    /\ raised = ""
    /\ printed = <<>>
    /\ posts = <<>>
    /\ calls = <<>>
    /\ origin = <<>>

\* a whole run of main() on any host, with any arguments and configuration
Init ==
    /\ host \in MainHosts
    /\ args \in ArgsSet
    /\ config \in ConfigSet
    /\ pc = "get_package_manager"
    /\ Start

Next ==
    \/ GetPackageManager
    \/ GetDistributionInfo
    \/ AptRunListing
    \/ AptScanLine
    \/ AptReturn
    \/ DnfRunListing
    \/ DnfScanEntry
    \/ DnfReturn
    \/ PrepareOutput
    \/ MissingCredentials
    \/ SendToApi
    \/ PrintReport

Spec == Init /\ [][Next]_vars

\* the two adapters on every listing within the bounds, the report printed
InitAdapters ==
    /\ host \in AptHosts \cup DnfHosts
    /\ args = NoArgs
    /\ config = NoConfig
    /\ pc = "get_package_manager"
    /\ Start

NextAdapters ==
    \/ GetPackageManager
    \/ GetDistributionInfo
    \/ AptRunListing
    \/ AptScanLine
    \/ AptReturn
    \/ DnfRunListing
    \/ DnfScanEntry
    \/ DnfReturn
    \/ PrepareOutput
    \/ PrintReport

SpecAdapters == InitAdapters /\ [][NextAdapters]_vars

-----------------------------------------------------------------------------
(* Properties *)

Exited == pc = "exit"

\* every report there is: the one assembled, those printed, those posted
Reports ==
    {output_data[i] : i \in DOMAIN output_data}
        \cup {printed[i] : i \in DOMAIN printed}
        \cup {posts[i].json : i \in DOMAIN posts}

\* C1: backend selection is a total function of the lowercased distribution id:
\* "ubuntu" and "debian" give the apt adapter, "fedora" gives the dnf adapter, and
\* every other id gives no backend, whereupon main exits with code 1 having called
\* neither get_distribution_info nor get_available_updates and having produced no
\* report.
C1_BackendSelection ==
    pc # "get_package_manager" =>
        /\ Lower(host.id) \in {Ubuntu, Debian} => package_manager = "apt"
        /\ Lower(host.id) = Fedora => package_manager = "dnf"
        /\ Lower(host.id) \notin {Ubuntu, Debian, Fedora} =>
               /\ package_manager = "none"
               /\ Exited
               /\ exit_code = Some(1)
               /\ raised = ""
               /\ distribution_info = None
               /\ lines = <<>> /\ idx = 1 /\ updates = <<>> /\ calls = <<>>
               /\ Reports = {}

\* an unsupported host has exited; a host whose id is not lowercase got its backend
C1_Witness ==
    Exited /\ host.id = CentOS /\ package_manager = "none" /\ exit_code = Some(1)

\* C2: in every report main assembles, total_updates is the length of updates and
\* security_updates is the number of records of updates whose is_security_update
\* is true.
C2_ReportCounts ==
    \A r \in Reports :
        /\ r.total_updates = Len(r.updates)
        /\ r.security_updates =
               Cardinality({i \in DOMAIN r.updates : r.updates[i].is_security_update = TRUE})

\* a report of two updates, one of them a security update
C2_Witness ==
    /\ output_data # None
    /\ Len(output_data[1].updates) = 2
    /\ output_data[1].security_updates = 1
    /\ output_data[1].updates[2].is_security_update

\* the last POST did not return HTTP 200
DeliveryFailed ==
    /\ posts # <<>>
    /\ ~(posts[Len(posts)].outcome.kind = "response"
            /\ posts[Len(posts)].outcome.status = 200)

\* C3: the exit code is 1 exactly when no supported backend is found, or delivery is
\* requested and the resolved API URL or API key is empty, or delivery is requested
\* and the POST does not return HTTP 200; in every other run it is 0.
C3_ExitCodes ==
    Exited =>
        /\ exit_code \in {Some(0), Some(1)}
        /\ exit_code = Some(1) <=>
               \/ package_manager = "none"
               \/ args.send_to_api /\ (ApiUrl = <<>> \/ ApiKey = <<>>)
               \/ args.send_to_api /\ DeliveryFailed

\* C4: when delivery is requested the report is never written to stdout, and a POST
\* is attempted only with a non-empty resolved URL and a non-empty resolved key: with
\* either empty the run exits with code 1 and no POST was attempted; when delivery is
\* not requested no POST is ever attempted.
C4_Delivery ==
    /\ args.send_to_api => printed = <<>>
    /\ posts # <<>> => args.send_to_api /\ ApiUrl # <<>> /\ ApiKey # <<>>
    /\ \A i \in DOMAIN posts : posts[i].url # <<>> /\ posts[i].key # <<>>
    /\ Exited /\ args.send_to_api /\ (ApiUrl = <<>> \/ ApiKey = <<>>) =>
           exit_code = Some(1) /\ posts = <<>>

\* the run with --send-to-api, an empty URL and a key has assembled its report and exited
C4_Witness ==
    /\ Exited
    /\ args.send_to_api
    /\ ApiUrl = <<>>
    /\ ApiKey # <<>>
    /\ output_data # None
    /\ exit_code = Some(1)
    /\ posts = <<>> /\ printed = <<>>

\* get_available_updates has returned its list to main
Returned == pc \in {"prepare_output", "deliver", "exit"} /\ raised = "" /\ package_manager # "none"

\* C5: every record returned by get_available_updates, for either adapter and every
\* listing output, has a non-empty name and a non-empty version.
C5_NameAndVersion ==
    \A i \in DOMAIN updates : updates[i].name # <<>> /\ updates[i].version # <<>>

\* C6: within one report no two records of updates have the same name, also when
\* the listing names the same package more than once.  Stated for the records that
\* have a name: two records without one are the case of C5.
C6_UniqueNames ==
    \A r \in Reports :
        \A i, j \in DOMAIN r.updates :
            i # j /\ r.updates[i].name # <<>> => r.updates[i].name # r.updates[j].name

\* the name an `apt list` line gives: its first token up to the first "/"
TokenName(token) ==
    LET slash == Find(token, <<"/">>)
    IN  IF slash = 0 THEN token ELSE SubSeq(token, 1, slash - 1)

ListedName(line) == TokenName(SplitWs(line)[1])

\* the value of a member of a JSON object that is a string, "" when it is absent
Member(pkg, key) == IF key \in DOMAIN pkg.members THEN pkg.members[key].str ELSE <<>>

\* the name the listing gives to entry k
EntryName(k) ==
    IF package_manager = "apt" THEN ListedName(lines[k]) ELSE Member(lines[k], "name")

\* C6 (amended): the adapters add no duplicate: two records of updates have the same
\* name only when they come from two different entries of the listing that both carry
\* that name, and each such entry keeps its own record.
C6_NoDuplicateAdded ==
    /\ Len(origin) = Len(updates)
    /\ \A i, j \in DOMAIN updates :
           i # j /\ updates[i].name = updates[j].name =>
               /\ origin[i].entry # origin[j].entry
               /\ EntryName(origin[i].entry) = updates[i].name
               /\ EntryName(origin[j].entry) = updates[j].name

\* the same package listed for two architectures is reported twice
C6_Witness ==
    /\ Returned
    /\ package_manager = "apt"
    /\ Len(updates) = 2
    /\ updates[1].name = CurlName /\ updates[2].name = CurlName
    /\ updates[1].architecture # updates[2].architecture

\* a line the Debian parser is to turn into a record: not blank, at least 4
\* whitespace tokens, and the marker in it
Parses(line) ==
    /\ Strip(line) # <<>>
    /\ Len(SplitWs(line)) >= 4
    /\ Contains(line, UpgradableFrom)

\* the elements of a set of numbers, ascending
RECURSIVE Ascending(_)
Ascending(S) == IF S = {} THEN <<>> ELSE <<Min(S)>> \o Ascending(S \ {Min(S)})

\* the text of line between the first marker and the line's last character, a "]"
BetweenMarkerAndBracket(line, text) ==
    From(line, Find(line, UpgradableFrom) + Len(UpgradableFrom)) = text \o <<"]">>

\* the text after the first marker, up to the next marker or the end of the line,
\* without its trailing "]" characters
AfterMarkerBracketsStripped(line, text) ==
    LET rest    == From(line, Find(line, UpgradableFrom) + Len(UpgradableFrom))
        next    == Find(rest, UpgradableFrom)
        segment == IF next = 0 THEN rest ELSE SubSeq(rest, 1, next - 1)
    IN  /\ text = <<>> \/ text[Len(text)] # "]"
        /\ Len(text) <= Len(segment)
        /\ SubSeq(segment, 1, Len(text)) = text
        /\ \A n \in (Len(text) + 1)..Len(segment) : segment[n] = "]"

\* the records of updates are, in order, those of the lines ls[k], k in K, with the
\* fields the claim gives them; current_version as amended when stripped is set
RecordsOf(ls, K, stripped) ==
    LET order == Ascending(K)
    IN  /\ Len(updates) = Len(order)
        /\ \A i \in DOMAIN updates :
               LET line  == ls[order[i]]
                   parts == SplitWs(line)
               IN  /\ updates[i].name = TokenName(parts[1])
                   /\ updates[i].version = parts[2]
                   /\ updates[i].architecture = parts[3]
                   /\ IF stripped
                      THEN AfterMarkerBracketsStripped(line, updates[i].current_version)
                      ELSE BetweenMarkerAndBracket(line, updates[i].current_version)

\* C7: Debian-family line parsing, for every listing output: the first line, blank
\* lines, lines of fewer than 4 tokens and lines without the marker produce no record,
\* raise nothing and do not stop the scan; every other line yields one record with
\* name = first token before its first "/", version = second token, architecture =
\* third token and current_version = the text between the marker and the trailing "]".
C7_LineParsing ==
    package_manager = "apt" /\ host.listing.rc = 0
        /\ pc \in {"prepare_output", "deliver", "exit"} =>
        LET raw == SplitSep(host.listing.out, Nl)
        IN  /\ raised = ""
            /\ RecordsOf(raw, {k \in 2..Len(raw) : Parses(raw[k])}, FALSE)

\* C7 (amended): the lines are those of the output with its leading and trailing
\* whitespace stripped, and current_version is the text after the first marker, up to
\* the next marker or the end of the line, with every trailing "]" removed; the rest
\* as claimed.  It holds line by line while the scan advances.
C7_StrippedLineParsing ==
    package_manager = "apt" /\ host.listing.rc = 0
        /\ pc \in {"apt_scan", "prepare_output", "deliver", "exit"} =>
        LET stripped == SplitSep(Strip(host.listing.out), Nl)
            scanned  == IF pc = "apt_scan" THEN 2..(idx - 1) ELSE 2..Len(stripped)
        IN  /\ raised = ""
            /\ lines = stripped
            /\ RecordsOf(lines, {k \in scanned : Parses(lines[k])}, TRUE)

\* header, a line without the marker, then the example line: one record, the example's
C7_Witness ==
    /\ Returned
    /\ lines = <<ListingHeader, NoMarkerLine, CurlLine>>
    /\ Len(updates) = 1
    /\ updates[1].name = CurlName
    /\ updates[1].version = CurlVersion
    /\ updates[1].current_version = CurlCurrent
    /\ updates[1].architecture = Amd64

\* the entries `dnf check-update` listed: those of "updates" in the document it
\* printed, when it exited 0 or 100 and printed a JSON object
ListedEntries ==
    LET data == host.listing.out
    IN  IF host.listing.rc \in {0, 100} /\ data.kind = "object"
             /\ "updates" \in DOMAIN data.members /\ data.members.updates.kind = "array"
        THEN data.members.updates.items
        ELSE <<>>

ListingFailed ==
    \/ package_manager = "apt" /\ host.listing.rc # 0
    \/ package_manager = "dnf" /\ host.listing.rc \notin {0, 100}

\* C9: when the listing command fails (apt: non-zero exit; dnf: an exit status other
\* than 0 and 100), get_available_updates returns the empty list without raising and
\* without any per-package lookup, and the run goes on to assemble a report with
\* total_updates = 0 and security_updates = 0.
C9_ListingFailure ==
    ListingFailed =>
        /\ raised = ""
        /\ calls = <<>>
        /\ updates = <<>>
        /\ pc \notin {"apt_scan", "dnf_scan"}
        /\ Exited => output_data # None
        /\ \A r \in Reports :
               r.updates = <<>> /\ r.total_updates = 0 /\ r.security_updates = 0

\* dnf exited 1 although it printed a document with an entry; the report is empty
C9_Witness ==
    /\ Exited
    /\ package_manager = "dnf"
    /\ host.listing.rc = 1
    /\ ListedEntries = <<>>
    /\ host.listing.out.kind = "object"
    /\ output_data # None
    /\ output_data[1].total_updates = 0

\* the keys of a record before the details are merged
BaseKeys ==
    IF package_manager = "apt"
    THEN {"name", "version", "current_version", "architecture", "is_security_update"}
    ELSE {"name", "version", "release", "architecture", "repository", "current_version",
          "is_security_update"}

\* C10: a failure inside one package's enrichment stays with that package: when the
\* detail lookup fails the record is returned with its base fields and no detail
\* field; when the security lookup fails (non-zero exit, whatever it printed) the
\* record has is_security_update = false; nothing is raised.
C10_EnrichmentFailure ==
    /\ Len(origin) = Len(updates)
    /\ \A i \in DOMAIN updates :
           /\ origin[i].details.rc # 0 => DOMAIN updates[i] = BaseKeys
           /\ origin[i].security.rc # 0 => updates[i].is_security_update = FALSE

\* the keys the detail lookup may add to a record
EnrichmentKeys ==
    IF package_manager = "apt"
    THEN {"size_bytes", "size", "website", "maintainer", "section", "priority", "description"}
    ELSE {"size", "website", "license", "summary", "description"}

\* the detail output has a line whose key, as the adapter reads it, is key
DetailOutputHasKey(out, key) ==
    \E l \in DOMAIN SplitSep(out, Nl) :
        LET line == SplitSep(out, Nl)[l]
        IN  /\ Contains(line, <<":">>)
            /\ Lower(Strip(SubSeq(line, 1, Find(line, <<":">>) - 1))) = key

\* record i has the base fields of the listing entry it came from
BaseFieldsFromListing(i) ==
    LET entry == lines[origin[i].entry]
        parts == SplitWs(entry)
    IN  IF package_manager = "apt"
        THEN /\ updates[i].name = TokenName(parts[1])
             /\ updates[i].version = parts[2]
             /\ updates[i].architecture = parts[3]
             /\ AfterMarkerBracketsStripped(entry, updates[i].current_version)
        ELSE /\ updates[i].name = Member(entry, "name")
             /\ updates[i].version = Member(entry, "version")
             /\ updates[i].architecture = Member(entry, "arch")
             /\ updates[i].current_version = Member(entry, "installed_version")

\* what the security lookup of record i answered
SecurityLookupResult(i) ==
    IF package_manager = "apt"
    THEN origin[i].security.rc = 0 /\ Contains(Lower(origin[i].security.out), Security)
    ELSE Contains(origin[i].security.out, EntryName(origin[i].entry))

\* C11: merging the detail lookup's result into a record never changes the record's
\* base fields: whatever the detail tool printed (lines with the keys name, version,
\* architecture, current_version included), the record's name, version,
\* current_version and architecture are the values of the primary listing,
\* is_security_update is the security lookup's result, in both adapters, and the
\* merge adds only keys of the fixed enrichment set.
C11_MergeKeepsBaseFields ==
    /\ Len(origin) = Len(updates)
    /\ \A i \in DOMAIN updates :
           /\ BaseFieldsFromListing(i)
           /\ updates[i].is_security_update = SecurityLookupResult(i)
           /\ BaseKeys \subseteq DOMAIN updates[i]
           /\ DOMAIN updates[i] \subseteq BaseKeys \cup EnrichmentKeys

\* a returned record whose detail lookup succeeded and printed Name, Version,
\* Architecture and Current-Version lines with other values than the listing's,
\* and whose details were merged (website, section and size_bytes were added)
C11_Witness ==
    /\ Returned
    /\ package_manager = "apt"
    /\ \E i \in DOMAIN updates :
           /\ origin[i].details.rc = 0
           /\ DetailOutputHasKey(origin[i].details.out, <<"n","a","m","e">>)
           /\ DetailOutputHasKey(origin[i].details.out, <<"v","e","r","s","i","o","n">>)
           /\ DetailOutputHasKey(origin[i].details.out,
                                 <<"a","r","c","h","i","t","e","c","t","u","r","e">>)
           /\ DetailOutputHasKey(origin[i].details.out,
                  <<"c","u","r","r","e","n","t","-","v","e","r","s","i","o","n">>)
           /\ {"website", "section", "size_bytes"} \subseteq DOMAIN updates[i]
           /\ updates[i].name = CurlName
           /\ updates[i].version = CurlVersion
           /\ updates[i].current_version = CurlCurrent
           /\ updates[i].architecture = Amd64

=============================================================================
